---- MODULE Spec2Model ----
(***************************************************************************)
(* GitHub Wars: the state normaliser and the game-transition engine of the *)
(* two variants of the script.                                             *)
(*   "lastTick"      src/game.js              (tracks the last tick time)   *)
(*   "pendingReset"  src/README.md:50-558     (tracks the next elimination  *)
(*                   time, a pendingReset latch and the winners history)    *)
(* Definitions of the pendingReset variant carry the suffix PR; the ones    *)
(* the two files share word for word are modelled once.                    *)
(***************************************************************************)
EXTENDS Integers, Sequences, FiniteSets, TLC

VARIABLES
  variant,  \* which of the two scripts runs
  raw,      \* the decoded players.json document handed to normalizeState
  state,    \* the in-memory game state object
  pre,      \* the game state object as it was before the last call
  op,       \* the last call: its name, arguments and return value
  timers,   \* pending zero-delay setTimeout callbacks (game.js:221)
  store,    \* players.json: whether the file exists and the document in it
  pc,       \* where main is: "idle" between two runs of the script
  inv       \* the run of main in progress: its event and what it has done

vars == <<variant, raw, state, pre, op, timers, store, pc, inv>>

\* What only main touches.
mainVars == <<store, pc, inv>>

----------------------------------------------------------------------------
(* Bounds of the model.                                                    *)

MaxLen == 2          \* longest alivePlayers / eliminatedPlayers array in a decoded document
MaxWinners == 2      \* longest winners array in a decoded document
MaxSeason == 2       \* resetSeason is not taken beyond this season
MaxTimers == 1       \* most setTimeout callbacks pending at once

(* Program constants.                                                      *)

EliminationDelayMin == 5     \* 5 * 60 * 1000 ms, in minutes

Variants == {"lastTick", "pendingReset"}

----------------------------------------------------------------------------
(* Decoded JSON values.  A scalar is a record of a type tag t, a number n   *)
(* and a string s; JFrac(i) is the non-integer number i + 1/2; JUndef is a  *)
(* property that is missing from its object.                               *)

JUndef == [t |-> "undefined", n |-> 0, s |-> ""]
JNull == [t |-> "null", n |-> 0, s |-> ""]
JBool(b) == [t |-> "boolean", n |-> IF b THEN 1 ELSE 0, s |-> ""]
JInt(i) == [t |-> "number", n |-> i, s |-> ""]
JFrac(i) == [t |-> "fraction", n |-> i, s |-> ""]
JStr(x) == [t |-> "string", n |-> 0, s |-> x]

\* typeof v === 'string'
IsString(v) == v.t = "string"

\* typeof v === 'boolean'
IsBoolean(v) == v.t = "boolean"

\* Number.isInteger(v)
IsInteger(v) == v.t = "number"

\* JavaScript truthiness of a scalar
Truthy(v) ==
  CASE v.t = "undefined" -> FALSE
    [] v.t = "null" -> FALSE
    [] v.t = "boolean" -> v.n = 1
    [] v.t = "number" -> v.n # 0
    [] v.t = "fraction" -> TRUE
    [] v.t = "string" -> v.s # ""

\* Array.prototype.includes on a list of strings
Includes(list, x) == \E i \in DOMAIN list : list[i] = x

\* A decoded array property: isArray is Array.isArray(v), items its entries.
NotArray == [isArray |-> FALSE, items |-> <<>>]
JArray(items) == [isArray |-> TRUE, items |-> items]

\* An object with none of the properties: the {} of game.js:58.
EmptyObject ==
  [isObject |-> TRUE, season |-> JUndef, gameStarted |-> JUndef,
   alivePlayers |-> NotArray, eliminatedPlayers |-> NotArray,
   winner |-> JUndef, lastEvent |-> JUndef, lastTick |-> JUndef,
   nextEliminationTime |-> JUndef, pendingReset |-> JUndef, winners |-> NotArray]

\* A decoded document that is no object (null, a number, a string).
NotObject == [EmptyObject EXCEPT !.isObject = FALSE]

----------------------------------------------------------------------------
(* The game state object.  Both variants use one record shape; a property   *)
(* a variant does not have keeps its placeholder (JUndef, FALSE, <<>>) for   *)
(* ever: lastTick in pendingReset; nextEliminationTime, pendingReset and    *)
(* winners in lastTick.                                                    *)

createDefaultState ==
  [season |-> 1, gameStarted |-> FALSE, alivePlayers |-> <<>>,
   eliminatedPlayers |-> <<>>, winner |-> JNull,
   lastEvent |-> "Waiting for players to join...", lastTick |-> JNull,
   nextEliminationTime |-> JUndef, pendingReset |-> FALSE, winners |-> <<>>]

createDefaultStatePR ==
  [season |-> 1, gameStarted |-> FALSE, alivePlayers |-> <<>>,
   eliminatedPlayers |-> <<>>, winner |-> JNull,
   lastEvent |-> "Waiting for players to join...", lastTick |-> JUndef,
   nextEliminationTime |-> JNull, pendingReset |-> FALSE, winners |-> <<>>]

\* The state object seen as a JavaScript value, as saveState hands it to
\* normalizeState: strings become string values, lists become arrays.
asRaw(s) ==
  [isObject |-> TRUE, season |-> JInt(s.season), gameStarted |-> JBool(s.gameStarted),
   alivePlayers |-> JArray([i \in DOMAIN s.alivePlayers |-> JStr(s.alivePlayers[i])]),
   eliminatedPlayers |-> JArray([i \in DOMAIN s.eliminatedPlayers |-> JStr(s.eliminatedPlayers[i])]),
   winner |-> s.winner, lastEvent |-> JStr(s.lastEvent), lastTick |-> s.lastTick,
   nextEliminationTime |-> JUndef, pendingReset |-> JUndef, winners |-> NotArray]

asRawPR(s) ==
  [isObject |-> TRUE, season |-> JInt(s.season), gameStarted |-> JBool(s.gameStarted),
   alivePlayers |-> JArray([i \in DOMAIN s.alivePlayers |-> JStr(s.alivePlayers[i])]),
   eliminatedPlayers |-> JArray([i \in DOMAIN s.eliminatedPlayers |-> JStr(s.eliminatedPlayers[i])]),
   winner |-> s.winner, lastEvent |-> JStr(s.lastEvent), lastTick |-> JUndef,
   nextEliminationTime |-> s.nextEliminationTime, pendingReset |-> JBool(s.pendingReset),
   winners |-> JArray([i \in DOMAIN s.winners |->
                 [isObject |-> TRUE, season |-> JInt(s.winners[i].season),
                  username |-> JStr(s.winners[i].username)]])]

----------------------------------------------------------------------------
(* normalizeState, game.js:55-102 and README.md:106-171.                   *)

\* the season test with >= 0 for > 0: a stored season 0 is kept
normalizedSeasonAcceptsZero(doc, base) ==
  IF IsInteger(doc.season) /\ doc.season.n >= 0 THEN doc.season.n ELSE base.season

\* season: Number.isInteger(state.season) && state.season > 0 ? state.season : base.season
normalizedSeason(doc, base) ==
  IF IsInteger(doc.season) /\ doc.season.n > 0 THEN doc.season.n ELSE base.season

\* gameStarted taken by its truthiness
normalizedGameStartedTruthy(doc, base) == Truthy(doc.gameStarted)

\* gameStarted: typeof state.gameStarted === 'boolean' ? state.gameStarted : base.gameStarted
normalizedGameStarted(doc, base) ==
  IF IsBoolean(doc.gameStarted) THEN doc.gameStarted.n = 1 ELSE base.gameStarted

\* lastEvent: typeof state.lastEvent === 'string' ? state.lastEvent : base.lastEvent
normalizedLastEvent(doc, base) ==
  IF IsString(doc.lastEvent) THEN doc.lastEvent.s ELSE base.lastEvent

\* typeof v === 'string' || v === null ? v : null   (lastTick, nextEliminationTime)
normalizedTime(v) ==
  IF IsString(v) \/ v = JNull THEN v ELSE JNull

\* pendingReset: typeof state.pendingReset === 'boolean' ? state.pendingReset : base.pendingReset
normalizedPendingReset(doc, base) ==
  IF IsBoolean(doc.pendingReset) THEN doc.pendingReset.n = 1 ELSE base.pendingReset

\* winner: typeof state.winner === 'string' ? state.winner : null
typedWinner(doc) ==
  IF IsString(doc.winner) THEN doc.winner ELSE JNull

\* addUnique without the includes test: duplicates are kept
addUniqueKeepsDuplicates(list, value) ==
  IF ~Truthy(value) \/ ~IsString(value)
    THEN list
    ELSE Append(list, value.s)

\* addUnique: the list after addUnique(list, value)
addUnique(list, value) ==
  IF ~Truthy(value) \/ ~IsString(value)
    THEN list
    ELSE IF ~Includes(list, value.s) THEN Append(list, value.s) ELSE list

\* arr.forEach((player) => addUnique(list, player)), guarded by Array.isArray
RECURSIVE forEachAddUnique(_, _)
forEachAddUnique(items, list) ==
  IF items = <<>> THEN list
  ELSE forEachAddUnique(Tail(items), addUnique(list, Head(items)))

collectPlayers(arr) ==
  IF arr.isArray THEN forEachAddUnique(arr.items, <<>>) ELSE <<>>

\* Remove any eliminated players from alive list to keep lists consistent
removeEliminated(alivePlayers, eliminatedPlayers) ==
  IF Len(eliminatedPlayers) > 0 /\ Len(alivePlayers) > 0
    THEN SelectSeq(alivePlayers, LAMBDA player : ~Includes(eliminatedPlayers, player))
    ELSE alivePlayers

\* if (normalized.winner && !normalized.alivePlayers.includes(normalized.winner)) winner = null
checkedWinner(winner, alivePlayers) ==
  IF Truthy(winner) /\ ~Includes(alivePlayers, winner.s) THEN JNull ELSE winner

\* winners.some((winner) => winner.season === season)
SomeSeason(list, season) == \E i \in DOMAIN list : list[i].season = season

\* One pass of the state.winners.forEach callback, README.md:140-152.
addWinnerEntry(list, entry) ==
  IF ~entry.isObject THEN list
  ELSE LET season == IF IsInteger(entry.season) THEN entry.season ELSE JNull
           username == IF IsString(entry.username) THEN entry.username ELSE JNull
       IN  IF ~Truthy(season) \/ ~Truthy(username) THEN list
           ELSE IF ~SomeSeason(list, season.n)
                  THEN Append(list, [season |-> season.n, username |-> username.s])
                  ELSE list

RECURSIVE forEachWinnerEntry(_, _)
forEachWinnerEntry(items, list) ==
  IF items = <<>> THEN list
  ELSE forEachWinnerEntry(Tail(items), addWinnerEntry(list, Head(items)))

collectWinners(arr) ==
  IF arr.isArray THEN forEachWinnerEntry(arr.items, <<>>) ELSE <<>>

\* normalizeState that checks the winner before the eliminated players are
\* removed from the alive list
normalizeStateChecksWinnerEarly(rawState) ==
  LET base == createDefaultState
      doc == IF rawState.isObject THEN rawState ELSE EmptyObject
      eliminatedPlayers == collectPlayers(doc.eliminatedPlayers)
      collected == collectPlayers(doc.alivePlayers)
  IN  [season |-> normalizedSeason(doc, base),
       gameStarted |-> normalizedGameStarted(doc, base),
       alivePlayers |-> removeEliminated(collected, eliminatedPlayers),
       eliminatedPlayers |-> eliminatedPlayers,
       winner |-> checkedWinner(typedWinner(doc), collected),
       lastEvent |-> normalizedLastEvent(doc, base),
       lastTick |-> normalizedTime(doc.lastTick),
       nextEliminationTime |-> JUndef, pendingReset |-> FALSE, winners |-> <<>>]

normalizeState(rawState) ==
  LET base == createDefaultState
      doc == IF rawState.isObject THEN rawState ELSE EmptyObject
      eliminatedPlayers == collectPlayers(doc.eliminatedPlayers)
      alivePlayers == removeEliminated(collectPlayers(doc.alivePlayers), eliminatedPlayers)
  IN  [season |-> normalizedSeason(doc, base),
       gameStarted |-> normalizedGameStarted(doc, base),
       alivePlayers |-> alivePlayers,
       eliminatedPlayers |-> eliminatedPlayers,
       winner |-> checkedWinner(typedWinner(doc), alivePlayers),
       lastEvent |-> normalizedLastEvent(doc, base),
       lastTick |-> normalizedTime(doc.lastTick),
       nextEliminationTime |-> JUndef, pendingReset |-> FALSE, winners |-> <<>>]

normalizeStatePR(rawState) ==
  LET base == createDefaultStatePR
      doc == IF rawState.isObject THEN rawState ELSE EmptyObject
      eliminatedPlayers == collectPlayers(doc.eliminatedPlayers)
      alivePlayers == removeEliminated(collectPlayers(doc.alivePlayers), eliminatedPlayers)
  IN  [season |-> normalizedSeason(doc, base),
       gameStarted |-> normalizedGameStarted(doc, base),
       alivePlayers |-> alivePlayers,
       eliminatedPlayers |-> eliminatedPlayers,
       winner |-> checkedWinner(typedWinner(doc), alivePlayers),
       lastEvent |-> normalizedLastEvent(doc, base),
       lastTick |-> JUndef,
       nextEliminationTime |-> normalizedTime(doc.nextEliminationTime),
       pendingReset |-> normalizedPendingReset(doc, base),
       winners |-> collectWinners(doc.winners)]

----------------------------------------------------------------------------
(* The transition engine.  Each operator is the function of the same name: *)
(* it takes the state object and yields the object after the call together *)
(* with what the call returned or scheduled.  lastEvent strings are the    *)
(* source's templates without their emoji.                                 *)

\* new Date(ms).toISOString(), with time counted in minutes
toISOString(minutes) == "T+" \o ToString(minutes) \o "min"

\* the next elimination time left unset
nextEliminationUnset(now) == JNull

\* new Date(Date.now() + 5 * 60 * 1000).toISOString()
nextEliminationAt(now) == JStr(toISOString(now + EliminationDelayMin))

\* splice that removes the entry before the one at randomIndex
SpliceOffByOne(list, randomIndex) ==
  [i \in 1..(Len(list) - 1) |-> IF i < randomIndex THEN list[i] ELSE list[i + 1]]

\* state.alivePlayers.splice(randomIndex, 1): the array without that entry
Splice(list, randomIndex) ==
  [i \in 1..(Len(list) - 1) |-> IF i <= randomIndex THEN list[i] ELSE list[i + 1]]

\* addPlayer without the "eliminated this season" check
addPlayerSkipsEliminatedCheck(s, username) ==
  IF s.gameStarted /\ Len(s.alivePlayers) > 1 THEN
    [state |-> [s EXCEPT !.lastEvent =
                  username \o " tried to join, but the game has already started!"],
     result |-> FALSE]
  ELSE IF Includes(s.alivePlayers, username) THEN
    [state |-> [s EXCEPT !.lastEvent =
                  username \o " tried to join again, but they're already in the game!"],
     result |-> FALSE]
  ELSE
    LET pushed == Append(s.alivePlayers, username)
    IN  IF Len(pushed) >= 2 /\ ~s.gameStarted THEN
          [state |-> [s EXCEPT !.alivePlayers = pushed,
                               !.gameStarted = TRUE,
                               !.lastEvent = username \o " has joined! The battle has begun with "
                                             \o ToString(Len(pushed)) \o " players!"],
           result |-> TRUE]
        ELSE
          [state |-> [s EXCEPT !.alivePlayers = pushed,
                               !.lastEvent = username \o " has joined the battle!"],
           result |-> TRUE]

\* addPlayer without the duplicate check
addPlayerSkipsDuplicateCheck(s, username) ==
  IF s.gameStarted /\ Len(s.alivePlayers) > 1 THEN
    [state |-> [s EXCEPT !.lastEvent =
                  username \o " tried to join, but the game has already started!"],
     result |-> FALSE]
  ELSE IF Includes(s.eliminatedPlayers, username) THEN
    [state |-> [s EXCEPT !.lastEvent =
                  username \o " tried to rejoin, but they were already eliminated this season!"],
     result |-> FALSE]
  ELSE
    LET pushed == Append(s.alivePlayers, username)
    IN  IF Len(pushed) >= 2 /\ ~s.gameStarted THEN
          [state |-> [s EXCEPT !.alivePlayers = pushed,
                               !.gameStarted = TRUE,
                               !.lastEvent = username \o " has joined! The battle has begun with "
                                             \o ToString(Len(pushed)) \o " players!"],
           result |-> TRUE]
        ELSE
          [state |-> [s EXCEPT !.alivePlayers = pushed,
                               !.lastEvent = username \o " has joined the battle!"],
           result |-> TRUE]

\* addPlayer that starts the game as soon as one player is in
addPlayerStartsAtOne(s, username) ==
  IF s.gameStarted /\ Len(s.alivePlayers) > 1 THEN
    [state |-> [s EXCEPT !.lastEvent =
                  username \o " tried to join, but the game has already started!"],
     result |-> FALSE]
  ELSE IF Includes(s.alivePlayers, username) THEN
    [state |-> [s EXCEPT !.lastEvent =
                  username \o " tried to join again, but they're already in the game!"],
     result |-> FALSE]
  ELSE IF Includes(s.eliminatedPlayers, username) THEN
    [state |-> [s EXCEPT !.lastEvent =
                  username \o " tried to rejoin, but they were already eliminated this season!"],
     result |-> FALSE]
  ELSE
    LET pushed == Append(s.alivePlayers, username)
    IN  IF Len(pushed) >= 1 /\ ~s.gameStarted THEN
          [state |-> [s EXCEPT !.alivePlayers = pushed,
                               !.gameStarted = TRUE,
                               !.lastEvent = username \o " has joined! The battle has begun with "
                                             \o ToString(Len(pushed)) \o " players!"],
           result |-> TRUE]
        ELSE
          [state |-> [s EXCEPT !.alivePlayers = pushed,
                               !.lastEvent = username \o " has joined the battle!"],
           result |-> TRUE]

\* addPlayer of game.js:121-155
addPlayer(s, username) ==
  IF s.gameStarted /\ Len(s.alivePlayers) > 1 THEN
    [state |-> [s EXCEPT !.lastEvent =
                  username \o " tried to join, but the game has already started!"],
     result |-> FALSE]
  ELSE IF Includes(s.alivePlayers, username) THEN
    [state |-> [s EXCEPT !.lastEvent =
                  username \o " tried to join again, but they're already in the game!"],
     result |-> FALSE]
  ELSE IF Includes(s.eliminatedPlayers, username) THEN
    [state |-> [s EXCEPT !.lastEvent =
                  username \o " tried to rejoin, but they were already eliminated this season!"],
     result |-> FALSE]
  ELSE
    LET pushed == Append(s.alivePlayers, username)
    IN  IF Len(pushed) >= 2 /\ ~s.gameStarted THEN
          [state |-> [s EXCEPT !.alivePlayers = pushed,
                               !.gameStarted = TRUE,
                               !.lastEvent = username \o " has joined! The battle has begun with "
                                             \o ToString(Len(pushed)) \o " players!"],
           result |-> TRUE]
        ELSE
          [state |-> [s EXCEPT !.alivePlayers = pushed,
                               !.lastEvent = username \o " has joined the battle!"],
           result |-> TRUE]

\* addPlayer of the pendingReset script without the eliminatedPlayers test
addPlayerPRSkipsEliminatedCheck(s, username, now) ==
  IF s.gameStarted /\ Len(s.alivePlayers) > 1 THEN
    [state |-> [s EXCEPT !.lastEvent =
                  username \o " tried to join, but the game has already started!"],
     result |-> FALSE]
  ELSE IF Includes(s.alivePlayers, username) THEN
    [state |-> [s EXCEPT !.lastEvent =
                  username \o " tried to join again, but they're already in the game!"],
     result |-> FALSE]
  ELSE
    LET pushed == Append(s.alivePlayers, username)
    IN  IF Len(pushed) >= 2 /\ ~s.gameStarted THEN
          [state |-> [s EXCEPT !.alivePlayers = pushed,
                               !.gameStarted = TRUE,
                               !.nextEliminationTime = nextEliminationAt(now),
                               !.pendingReset = FALSE,
                               !.lastEvent = username \o " has joined! The battle has begun with "
                                             \o ToString(Len(pushed)) \o " players!"],
           result |-> TRUE]
        ELSE
          [state |-> [s EXCEPT !.alivePlayers = pushed,
                               !.lastEvent = username \o " has joined the battle!"],
           result |-> TRUE]

\* addPlayer of README.md:190-227
addPlayerPR(s, username, now) ==
  IF s.gameStarted /\ Len(s.alivePlayers) > 1 THEN
    [state |-> [s EXCEPT !.lastEvent =
                  username \o " tried to join, but the game has already started!"],
     result |-> FALSE]
  ELSE IF Includes(s.alivePlayers, username) THEN
    [state |-> [s EXCEPT !.lastEvent =
                  username \o " tried to join again, but they're already in the game!"],
     result |-> FALSE]
  ELSE IF Includes(s.eliminatedPlayers, username) THEN
    [state |-> [s EXCEPT !.lastEvent =
                  username \o " tried to rejoin, but they were already eliminated this season!"],
     result |-> FALSE]
  ELSE
    LET pushed == Append(s.alivePlayers, username)
    IN  IF Len(pushed) >= 2 /\ ~s.gameStarted THEN
          [state |-> [s EXCEPT !.alivePlayers = pushed,
                               !.gameStarted = TRUE,
                               !.nextEliminationTime = nextEliminationAt(now),
                               !.pendingReset = FALSE,
                               !.lastEvent = username \o " has joined! The battle has begun with "
                                             \o ToString(Len(pushed)) \o " players!"],
           result |-> TRUE]
        ELSE
          [state |-> [s EXCEPT !.alivePlayers = pushed,
                               !.lastEvent = username \o " has joined the battle!"],
           result |-> TRUE]

\* runGameTick whose first test joins its two conditions with && for ||
runGameTickGuardsWithAnd(s, randomIndex) ==
  IF ~s.gameStarted /\ Len(s.alivePlayers) = 0 THEN
    [state |-> s, scheduled |-> FALSE]
  ELSE IF Len(s.alivePlayers) = 0 THEN
    [state |-> s, scheduled |-> FALSE]
  ELSE IF Len(s.alivePlayers) = 1 THEN
    LET winner == s.alivePlayers[1]
    IN  [state |-> [s EXCEPT !.winner = JStr(winner),
                             !.lastEvent = winner \o " is the winner of Season "
                                           \o ToString(s.season) \o "!"],
         scheduled |-> TRUE]
  ELSE
    LET eliminatedPlayer == s.alivePlayers[randomIndex + 1]
        alive == Splice(s.alivePlayers, randomIndex)
        eliminated == Append(s.eliminatedPlayers, eliminatedPlayer)
    IN  IF Len(alive) = 1 THEN
          [state |-> [s EXCEPT !.alivePlayers = alive,
                               !.eliminatedPlayers = eliminated,
                               !.winner = JStr(alive[1]),
                               !.lastEvent = eliminatedPlayer \o " has been eliminated!\n"
                                             \o alive[1] \o " is the winner of Season "
                                             \o ToString(s.season) \o "!"],
           scheduled |-> FALSE]
        ELSE
          [state |-> [s EXCEPT !.alivePlayers = alive,
                               !.eliminatedPlayers = eliminated,
                               !.lastEvent = eliminatedPlayer \o " has been eliminated! "
                                             \o ToString(Len(alive)) \o " players remain."],
           scheduled |-> FALSE]

\* runGameTick that leaves the winner test to the next tick
runGameTickChecksWinNextTick(s, randomIndex) ==
  IF ~s.gameStarted \/ Len(s.alivePlayers) = 0 THEN
    [state |-> s, scheduled |-> FALSE]
  ELSE IF Len(s.alivePlayers) = 1 THEN
    LET winner == s.alivePlayers[1]
    IN  [state |-> [s EXCEPT !.winner = JStr(winner),
                             !.lastEvent = winner \o " is the winner of Season "
                                           \o ToString(s.season) \o "!"],
         scheduled |-> TRUE]
  ELSE
    LET eliminatedPlayer == s.alivePlayers[randomIndex + 1]
        alive == Splice(s.alivePlayers, randomIndex)
        eliminated == Append(s.eliminatedPlayers, eliminatedPlayer)
    IN  [state |-> [s EXCEPT !.alivePlayers = alive,
                             !.eliminatedPlayers = eliminated,
                             !.lastEvent = eliminatedPlayer \o " has been eliminated! "
                                           \o ToString(Len(alive)) \o " players remain."],
         scheduled |-> FALSE]

\* runGameTick of game.js:206-242; scheduled is whether it called setTimeout
runGameTick(s, randomIndex) ==
  IF ~s.gameStarted \/ Len(s.alivePlayers) = 0 THEN
    [state |-> s, scheduled |-> FALSE]
  ELSE IF Len(s.alivePlayers) = 1 THEN
    LET winner == s.alivePlayers[1]
    IN  [state |-> [s EXCEPT !.winner = JStr(winner),
                             !.lastEvent = winner \o " is the winner of Season "
                                           \o ToString(s.season) \o "!"],
         scheduled |-> TRUE]
  ELSE
    LET eliminatedPlayer == s.alivePlayers[randomIndex + 1]
        alive == Splice(s.alivePlayers, randomIndex)
        eliminated == Append(s.eliminatedPlayers, eliminatedPlayer)
    IN  IF Len(alive) = 1 THEN
          [state |-> [s EXCEPT !.alivePlayers = alive,
                               !.eliminatedPlayers = eliminated,
                               !.winner = JStr(alive[1]),
                               !.lastEvent = eliminatedPlayer \o " has been eliminated!\n"
                                             \o alive[1] \o " is the winner of Season "
                                             \o ToString(s.season) \o "!"],
           scheduled |-> FALSE]
        ELSE
          [state |-> [s EXCEPT !.alivePlayers = alive,
                               !.eliminatedPlayers = eliminated,
                               !.lastEvent = eliminatedPlayer \o " has been eliminated! "
                                             \o ToString(Len(alive)) \o " players remain."],
           scheduled |-> FALSE]

\* recordWinner that replaces the history with the new record
recordWinnerOverwrites(s, username) ==
  IF ~SomeSeason(s.winners, s.season)
    THEN [s EXCEPT !.winners = <<[season |-> s.season, username |-> username]>>]
    ELSE s

\* recordWinner of README.md:316-323 (state.winners is always an array here)
recordWinner(s, username) ==
  IF ~SomeSeason(s.winners, s.season)
    THEN [s EXCEPT !.winners = Append(s.winners, [season |-> s.season, username |-> username])]
    ELSE s

\* runGameTick of README.md:268-311; it never calls setTimeout
runGameTickPR(s, randomIndex, now) ==
  IF ~s.gameStarted \/ Len(s.alivePlayers) = 0 THEN
    [state |-> s, scheduled |-> FALSE]
  ELSE IF Len(s.alivePlayers) = 1 THEN
    LET winner == s.alivePlayers[1]
    IN  [state |-> recordWinner(
                     [s EXCEPT !.winner = JStr(winner),
                               !.pendingReset = TRUE,
                               !.gameStarted = FALSE,
                               !.nextEliminationTime = JNull,
                               !.lastEvent = winner \o " is the winner of Season "
                                             \o ToString(s.season) \o "!"],
                     winner),
         scheduled |-> FALSE]
  ELSE
    LET eliminatedPlayer == s.alivePlayers[randomIndex + 1]
        alive == Splice(s.alivePlayers, randomIndex)
        eliminated == Append(s.eliminatedPlayers, eliminatedPlayer)
    IN  IF Len(alive) = 1 THEN
          [state |-> recordWinner(
                       [s EXCEPT !.alivePlayers = alive,
                                 !.eliminatedPlayers = eliminated,
                                 !.winner = JStr(alive[1]),
                                 !.pendingReset = TRUE,
                                 !.gameStarted = FALSE,
                                 !.nextEliminationTime = JNull,
                                 !.lastEvent = eliminatedPlayer \o " has been eliminated!\n"
                                               \o alive[1] \o " is the winner of Season "
                                               \o ToString(s.season) \o "!"],
                       alive[1]),
           scheduled |-> FALSE]
        ELSE
          [state |-> [s EXCEPT !.alivePlayers = alive,
                               !.eliminatedPlayers = eliminated,
                               !.nextEliminationTime = nextEliminationAt(now),
                               !.lastEvent = eliminatedPlayer \o " has been eliminated! "
                                             \o ToString(Len(alive)) \o " players remain."],
           scheduled |-> FALSE]

\* resetSeason that forgets to clear the winner
resetSeasonKeepsWinner(s) ==
  [s EXCEPT !.season = s.season + 1,
            !.gameStarted = FALSE,
            !.alivePlayers = <<>>,
            !.eliminatedPlayers = <<>>,
            !.lastEvent = "Season " \o ToString(s.season + 1)
                          \o " is ready! Open an issue to join the battle!"]

\* resetSeason of game.js:247-255
resetSeason(s) ==
  [s EXCEPT !.season = s.season + 1,
            !.gameStarted = FALSE,
            !.alivePlayers = <<>>,
            !.eliminatedPlayers = <<>>,
            !.winner = JNull,
            !.lastEvent = "Season " \o ToString(s.season + 1)
                          \o " is ready! Open an issue to join the battle!"]

\* resetSeason that starts the winners history afresh
resetSeasonPRClearsWinners(s) ==
  [s EXCEPT !.season = s.season + 1,
            !.gameStarted = FALSE,
            !.alivePlayers = <<>>,
            !.eliminatedPlayers = <<>>,
            !.winner = JNull,
            !.nextEliminationTime = JNull,
            !.pendingReset = FALSE,
            !.winners = <<>>,
            !.lastEvent = "Season " \o ToString(s.season + 1)
                          \o " is ready! Open an issue to join the battle!"]

\* resetSeason of README.md:328-338
resetSeasonPR(s) ==
  [s EXCEPT !.season = s.season + 1,
            !.gameStarted = FALSE,
            !.alivePlayers = <<>>,
            !.eliminatedPlayers = <<>>,
            !.winner = JNull,
            !.nextEliminationTime = JNull,
            !.pendingReset = FALSE,
            !.lastEvent = "Season " \o ToString(s.season + 1)
                          \o " is ready! Open an issue to join the battle!"]

----------------------------------------------------------------------------
(* Inputs.                                                                 *)

\* ISSUE_AUTHOR, the username handed to addPlayer
Usernames == {"a", "b", "c"}

\* Date.now(), in minutes: two instants
NowValues == {0, 1}

\* Math.floor(Math.random() * state.alivePlayers.length)
RandomIndexes(s) ==
  IF Len(s.alivePlayers) = 0 THEN {0} ELSE 0..(Len(s.alivePlayers) - 1)

SeqsUpTo(S, n) == UNION {[1..k -> S] : k \in 0..n}

\* Entries of a stored player array: two names, the empty string, a number.
EntryValues == {JStr("a"), JStr("b"), JStr(""), JInt(7)}

RawLists == {NotArray} \cup {JArray(x) : x \in SeqsUpTo(EntryValues, MaxLen)}

WinnerValues == {JUndef, JNull, JStr("a"), JStr("")}

SeasonValues == {JUndef, JInt(0), JInt(-1), JInt(2), JFrac(1), JStr("2")}

GameStartedValues == {JUndef, JBool(TRUE), JBool(FALSE), JStr("true")}

LastEventValues == {JUndef, JStr("x has joined the battle!"), JNull}

TimeValues == {JUndef, JNull, JStr(toISOString(0)), JInt(7)}

PendingResetValues == {JUndef, JBool(TRUE), JInt(1)}

\* Entries of a stored winners array: records with a season and a username
\* of every kind, and an entry that is no object.
WinnerEntries ==
  {[isObject |-> FALSE, season |-> JUndef, username |-> JUndef]} \cup
  {[isObject |-> TRUE, season |-> se, username |-> u] :
     se \in {JInt(1), JInt(2), JInt(0), JInt(-1), JFrac(1), JUndef},
     u \in {JStr("a"), JStr("b"), JStr(""), JInt(7)}}

RawWinners == {NotArray} \cup {JArray(x) : x \in SeqsUpTo(WinnerEntries, MaxWinners)}

\* A well-formed stored document of each variant.
BaseDoc ==
  [isObject |-> TRUE, season |-> JInt(2), gameStarted |-> JBool(TRUE),
   alivePlayers |-> JArray(<<JStr("a"), JStr("b")>>),
   eliminatedPlayers |-> JArray(<<JStr("c")>>),
   winner |-> JNull, lastEvent |-> JStr("c has been eliminated! 2 players remain."),
   lastTick |-> JStr(toISOString(0)),
   nextEliminationTime |-> JUndef, pendingReset |-> JUndef, winners |-> NotArray]

BaseDocPR ==
  [BaseDoc EXCEPT !.lastTick = JUndef,
                  !.nextEliminationTime = JStr(toISOString(EliminationDelayMin)),
                  !.pendingReset = JBool(FALSE),
                  !.winners = JArray(<<[isObject |-> TRUE, season |-> JInt(1),
                                        username |-> JStr("c")]>>)]

BaseDocOf(v) == IF v = "lastTick" THEN BaseDoc ELSE BaseDocPR

\* A document whose player arrays, winner and gameStarted vary.
ListDoc(v, a, e, w, g) ==
  [BaseDocOf(v) EXCEPT !.alivePlayers = a, !.eliminatedPlayers = e,
                       !.winner = w, !.gameStarted = g]

\* A document whose scalar properties vary.
ScalarDoc(v, se, g, le, tm, pr) ==
  [BaseDocOf(v) EXCEPT !.season = se, !.gameStarted = g, !.lastEvent = le,
                       !.lastTick = IF v = "lastTick" THEN tm ELSE JUndef,
                       !.nextEliminationTime = IF v = "lastTick" THEN JUndef ELSE tm,
                       !.pendingReset = IF v = "lastTick" THEN JUndef ELSE pr]

\* A document whose winners history varies (pendingReset variant).
WinnersDoc(w) == [BaseDocPR EXCEPT !.winners = w]

\* rawState is one of the decoded documents normalizeState is given.
IsRawDoc(v, rawState) ==
  \/ rawState \in {NotObject, EmptyObject}
  \/ \E a \in RawLists, e \in RawLists, w \in WinnerValues, g \in {JBool(TRUE), JBool(FALSE)} :
       rawState = ListDoc(v, a, e, w, g)
  \/ \E se \in SeasonValues, g \in GameStartedValues, le \in LastEventValues,
        tm \in TimeValues, pr \in (IF v = "lastTick" THEN {JUndef} ELSE PendingResetValues) :
       rawState = ScalarDoc(v, se, g, le, tm, pr)
  \/ /\ v = "pendingReset"
     /\ \E w \in RawWinners : rawState = WinnersDoc(w)

----------------------------------------------------------------------------
(* The calls, as actions.                                                  *)

DefaultStateOf(v) == IF v = "lastTick" THEN createDefaultState ELSE createDefaultStatePR

NormalizeOf(v, rawState) ==
  IF v = "lastTick" THEN normalizeState(rawState) ELSE normalizeStatePR(rawState)

AsRawOf(v, s) == IF v = "lastTick" THEN asRaw(s) ELSE asRawPR(s)

Call(name, username, randomIndex, result, scheduled) ==
  [name |-> name, username |-> username, randomIndex |-> randomIndex,
   result |-> result, scheduled |-> scheduled]

\* players.json before the script has ever written it: fs.existsSync is false
NoStore == [exists |-> FALSE, parses |-> FALSE, doc |-> NotObject]

\* A run of main that has just loaded the state s for an event of this kind:
\* before is the state handed to addPlayer or runGameTick, after the state
\* that call left, reset whether resetSeason ran first, and writes the
\* documents saveState has written so far; closed is how closeIssue ended
\* ("" while it was not called) and closedAfter the number of writes made
\* before it was called; failed is the call whose error ended the run with
\* process.exit(1) ("" when none did).
Invocation(kind, author, s) ==
  [kind |-> kind, author |-> author, loaded |-> s, reset |-> FALSE,
   before |-> s, after |-> s, writes |-> <<>>,
   closed |-> "", closedAfter |-> 0, failed |-> ""]

\* The script is not running and has never run.
NoMain ==
  /\ store = NoStore
  /\ pc = "idle"
  /\ inv = Invocation("none", "", DefaultStateOf(variant))

\* addPlayer(state, username)
Join(username, now) ==
  LET r == IF variant = "lastTick" THEN addPlayer(state, username)
           ELSE addPlayerPR(state, username, now)
  IN  /\ pre' = state
      /\ state' = r.state
      /\ op' = Call("addPlayer", username, 0, r.result, FALSE)
      /\ raw' = NotObject
      /\ UNCHANGED <<variant, timers, mainVars>>

\* runGameTick(state); the win-check-first path of game.js leaves a timer pending
Tick(randomIndex, now) ==
  LET r == IF variant = "lastTick" THEN runGameTick(state, randomIndex)
           ELSE runGameTickPR(state, randomIndex, now)
  IN  /\ r.scheduled => timers < MaxTimers
      /\ pre' = state
      /\ state' = r.state
      /\ op' = Call("runGameTick", "", randomIndex, FALSE, r.scheduled)
      /\ timers' = IF r.scheduled THEN timers + 1 ELSE timers
      /\ raw' = NotObject
      /\ UNCHANGED <<variant, mainVars>>

\* resetSeason(state), called directly
ResetSeason ==
  /\ state.season < MaxSeason
  /\ pre' = state
  /\ state' = IF variant = "lastTick" THEN resetSeason(state) ELSE resetSeasonPR(state)
  /\ op' = Call("resetSeason", "", 0, FALSE, FALSE)
  /\ raw' = NotObject
  /\ UNCHANGED <<variant, timers, mainVars>>

\* the setTimeout callback of game.js:221-223: resetSeason(state), later
DeferredReset ==
  /\ timers > 0
  /\ state.season < MaxSeason
  /\ pre' = state
  /\ state' = resetSeason(state)
  /\ op' = Call("resetSeason", "", 0, FALSE, TRUE)
  /\ timers' = timers - 1
  /\ raw' = NotObject
  /\ UNCHANGED <<variant, mainVars>>

Next ==
  \/ \E username \in Usernames, now \in NowValues : Join(username, now)
  \/ \E randomIndex \in RandomIndexes(state), now \in NowValues : Tick(randomIndex, now)
  \/ ResetSeason
  \/ DeferredReset

\* The engine from the default state.
Init ==
  /\ variant \in Variants
  /\ raw = NotObject
  /\ state = DefaultStateOf(variant)
  /\ pre = state
  /\ op = Call("createDefaultState", "", 0, FALSE, FALSE)
  /\ timers = 0
  /\ NoMain

Spec == Init /\ [][Next]_vars

\* The engine from any state loadGameState can return for a stored document.
InitStore ==
  /\ variant \in Variants
  /\ IsRawDoc(variant, raw)
  /\ state = NormalizeOf(variant, raw)
  /\ pre = state
  /\ op = Call("normalizeState", "", 0, FALSE, FALSE)
  /\ timers = 0
  /\ NoMain

SpecStore == InitStore /\ [][Next]_vars

\* normalizeState alone: on the stored document (loadGameState), then on its
\* own result (saveState).
InitNorm ==
  /\ variant \in Variants
  /\ IsRawDoc(variant, raw)
  /\ state = DefaultStateOf(variant)
  /\ pre = state
  /\ op = Call("createDefaultState", "", 0, FALSE, FALSE)
  /\ timers = 0
  /\ NoMain

NormalizeLoaded ==
  /\ op.name = "createDefaultState"
  /\ pre' = state
  /\ state' = NormalizeOf(variant, raw)
  /\ op' = Call("normalizeState", "", 0, FALSE, FALSE)
  /\ UNCHANGED <<variant, raw, timers, mainVars>>

NormalizeSaved ==
  /\ op.name = "normalizeState"
  /\ pre' = state
  /\ state' = NormalizeOf(variant, AsRawOf(variant, state))
  /\ op' = Call("normalizeStateAgain", "", 0, FALSE, FALSE)
  /\ UNCHANGED <<variant, raw, timers, mainVars>>

NextNorm == NormalizeLoaded \/ NormalizeSaved

SpecNorm == InitNorm /\ [][NextNorm]_vars

----------------------------------------------------------------------------
(* Properties of the engine from the default state (Spec).                 *)

NoDuplicates(list) == \A i, j \in DOMAIN list : i # j => list[i] # list[j]

Disjoint(l1, l2) == \A i \in DOMAIN l1 : ~Includes(l2, l1[i])

\* C1: after any sequence of addPlayer, runGameTick and resetSeason calls from
\* the default state, in both variants, alivePlayers has no duplicate,
\* eliminatedPlayers has no duplicate, and no identifier is in both lists.
C1_ListsDisjointDuplicateFree ==
  /\ NoDuplicates(state.alivePlayers)
  /\ NoDuplicates(state.eliminatedPlayers)
  /\ Disjoint(state.alivePlayers, state.eliminatedPlayers)

\* A later season with two eliminated players and a survivor.
C1_Witness ==
  /\ state.season > 1
  /\ Len(state.eliminatedPlayers) >= 2
  /\ Len(state.alivePlayers) >= 1
  /\ op.name = "runGameTick"

\* C2: after any sequence of calls from the default state, a join on a
\* finished season included, winner is null or an element of alivePlayers.
C2_WinnerIsAlive ==
  \/ state.winner = JNull
  \/ IsString(state.winner) /\ Includes(state.alivePlayers, state.winner.s)

\* An accepted join on a finished season that was not reset: the winner stays.
C2_Witness ==
  /\ op.name = "addPlayer"
  /\ op.result
  /\ pre.winner # JNull
  /\ state.winner = pre.winner
  /\ Len(state.alivePlayers) = 2

----------------------------------------------------------------------------
(* Properties of normalizeState (SpecNorm).                                *)

\* The entries of list at the indexes idx, in order.
SubSeqAt(list, idx) ==
  [k \in 1..Cardinality(idx) |->
     list[CHOOSE i \in idx : Cardinality({j \in idx : j <= i}) = k]]

\* The entries of a decoded array property, none when it is no array.
InputItems(arr) == IF arr.isArray THEN arr.items ELSE <<>>

\* The string-typed entries of a decoded array, in order.
StringEntries(arr) ==
  LET items == InputItems(arr)
      kept == SubSeqAt(items, {i \in DOMAIN items : items[i].t = "string"})
  IN  [i \in DOMAIN kept |-> kept[i].s]

\* The non-empty string-typed entries of a decoded array, in order.
NonEmptyStringEntries(arr) ==
  LET items == InputItems(arr)
      kept == SubSeqAt(items, {i \in DOMAIN items : items[i].t = "string" /\ items[i].s # ""})
  IN  [i \in DOMAIN kept |-> kept[i].s]

\* The first occurrence of each value of list, in order.
FirstOccurrences(list) ==
  SubSeqAt(list, {i \in DOMAIN list : \A j \in 1..(i - 1) : list[j] # list[i]})

\* The entries of list that are not entries of other, in order.
Without(list, other) ==
  SubSeqAt(list, {i \in DOMAIN list : \A j \in DOMAIN other : other[j] # list[i]})

\* C3: normalizeState is idempotent: normalizing the state it returned gives
\* that same state, field by field, whatever the decoded input was.
C3_NormalizeIdempotent ==
  op.name = "normalizeStateAgain" => state = pre

\* A second pass over the result of a first pass that had to repair the
\* document: an identifier stored in both lists, and a winner naming it.
C3_Witness ==
  /\ op.name = "normalizeStateAgain"
  /\ raw.isObject
  /\ raw.winner = JStr("a")
  /\ raw.alivePlayers = JArray(<<JStr("a"), JStr("b")>>)
  /\ raw.eliminatedPlayers = JArray(<<JStr("a")>>)
  /\ state.winner = JNull
  /\ state.alivePlayers = <<"b">>

\* C4 as amended: the returned lists keep the non-empty string entries of the
\* input lists, in order, first occurrence of each value only, and an
\* identifier in both input lists is dropped from alivePlayers and kept in
\* eliminatedPlayers.
C4_ListsFilteredNonEmpty ==
  op.name = "normalizeState" =>
    /\ state.eliminatedPlayers = FirstOccurrences(NonEmptyStringEntries(raw.eliminatedPlayers))
    /\ state.alivePlayers =
         Without(FirstOccurrences(NonEmptyStringEntries(raw.alivePlayers)),
                 NonEmptyStringEntries(raw.eliminatedPlayers))

\* C4 as stated: every string-typed entry is kept, the empty string included.
C4_ListsFilteredAllStrings ==
  op.name = "normalizeState" =>
    /\ state.eliminatedPlayers = FirstOccurrences(StringEntries(raw.eliminatedPlayers))
    /\ state.alivePlayers =
         Without(FirstOccurrences(StringEntries(raw.alivePlayers)),
                 StringEntries(raw.eliminatedPlayers))

\* A document with an empty string and a name in alivePlayers, and that name
\* twice in eliminatedPlayers.
C4_Witness ==
  /\ op.name = "normalizeState"
  /\ raw.alivePlayers = JArray(<<JStr(""), JStr("a")>>)
  /\ raw.eliminatedPlayers = JArray(<<JStr("a"), JStr("a")>>)
  /\ state.alivePlayers = <<>>
  /\ state.eliminatedPlayers = <<"a">>

\* C5: the state normalizeState returns has winner null or an element of the
\* returned alivePlayers, the empty-string winner included.
C5_NormalizedWinnerIsAlive ==
  op.name = "normalizeState" =>
    \/ state.winner = JNull
    \/ IsString(state.winner) /\ Includes(state.alivePlayers, state.winner.s)

\* A stored winners entry the claim lets through: an object whose season is
\* a positive integer and whose username is a non-empty string.
WellFormedEntry(entry) ==
  /\ entry.isObject
  /\ entry.season.t = "number" /\ entry.season.n > 0
  /\ entry.username.t = "string" /\ entry.username.s # ""

\* C6: the winners list normalizeState returns (pendingReset variant) holds
\* only records with a positive integer season, at most one per season, and
\* is the first well-formed record of each season in input order; records
\* with a zero, negative or non-integer season are dropped.
C6_WinnersWellFormed ==
  (op.name = "normalizeState" /\ variant = "pendingReset") =>
    LET items == InputItems(raw.winners)
        good == SubSeqAt(items, {i \in DOMAIN items : WellFormedEntry(items[i])})
        first == SubSeqAt(good, {i \in DOMAIN good :
                                   \A j \in 1..(i - 1) : good[j].season # good[i].season})
    IN  /\ \A i \in DOMAIN state.winners : state.winners[i].season > 0
        /\ \A i, j \in DOMAIN state.winners :
             i # j => state.winners[i].season # state.winners[j].season
        /\ state.winners = [i \in DOMAIN first |->
                              [season |-> first[i].season.n, username |-> first[i].username.s]]

----------------------------------------------------------------------------
(* Properties of the engine from any normalized stored state (SpecStore).  *)

\* C7: season is a positive integer in every state normalizeState returns (a
\* malformed or non-positive stored season becomes 1) and in every state
\* reached from it; addPlayer and runGameTick never change it, resetSeason
\* adds exactly 1, so it never decreases.
C7_SeasonPositiveMonotone ==
  /\ state.season \in Nat \ {0}
  /\ op.name = "normalizeState" =>
       /\ (raw.isObject /\ raw.season.t = "number" /\ raw.season.n >= 1) =>
            state.season = raw.season.n
       /\ ~(raw.isObject /\ raw.season.t = "number" /\ raw.season.n >= 1) =>
            state.season = 1
  /\ op.name \in {"addPlayer", "runGameTick"} => state.season = pre.season
  /\ op.name = "resetSeason" => state.season = pre.season + 1
  /\ state.season >= pre.season

\* A reset of a season that came from the store.
C7_Witness ==
  /\ op.name = "resetSeason"
  /\ pre.season = 1
  /\ Len(pre.alivePlayers) = 2
  /\ state.season = 2

\* C8: addPlayer returns false and changes nothing but lastEvent when the game
\* has started with more than one alive player, or the username is already
\* alive, or it is already eliminated.
C8_RejectedJoinChangesNothing ==
  (/\ op.name = "addPlayer"
   /\ \/ pre.gameStarted /\ Len(pre.alivePlayers) > 1
      \/ Includes(pre.alivePlayers, op.username)
      \/ Includes(pre.eliminatedPlayers, op.username))
  => /\ op.result = FALSE
     /\ [state EXCEPT !.lastEvent = pre.lastEvent] = pre
     /\ Len(state.alivePlayers) = Len(pre.alivePlayers)

\* The same username joining a second time before the game has started.
C8_Witness ==
  /\ op.name = "addPlayer"
  /\ ~pre.gameStarted
  /\ pre.alivePlayers = <<op.username>>
  /\ op.result = FALSE
  /\ state.alivePlayers = pre.alivePlayers

\* C9 as amended: gameStarted turns true only inside an accepted addPlayer
\* that brings alivePlayers to 2 or more entries; an accepted addPlayer on a
\* state not started starts the game exactly when it brings alivePlayers to 2
\* or more, so one that brings it to 1 leaves gameStarted false.
C9_StartsAtTwoOrMore ==
  /\ (~pre.gameStarted /\ state.gameStarted) =>
       (op.name = "addPlayer" /\ op.result /\ Len(state.alivePlayers) >= 2)
  /\ (op.name = "addPlayer" /\ op.result /\ ~pre.gameStarted) =>
       (state.gameStarted <=> Len(state.alivePlayers) >= 2)

\* C9 as stated: gameStarted turns true only in an accepted addPlayer that
\* brings alivePlayers to exactly 2, and an accepted addPlayer that brings it
\* to any other length leaves gameStarted false.
C9_StartsAtExactlyTwo ==
  /\ (~pre.gameStarted /\ state.gameStarted) =>
       (op.name = "addPlayer" /\ op.result /\ Len(state.alivePlayers) = 2)
  /\ (op.name = "addPlayer" /\ op.result /\ ~pre.gameStarted
        /\ Len(state.alivePlayers) # 2) => ~state.gameStarted

\* A third player joining a stored state that had two alive and was not started.
C9_Witness ==
  /\ op.name = "addPlayer"
  /\ op.result
  /\ ~pre.gameStarted
  /\ Len(pre.alivePlayers) = 2
  /\ Len(state.alivePlayers) = 3
  /\ state.gameStarted

\* C10: runGameTick changes no field of the state, and schedules nothing,
\* when gameStarted is false or alivePlayers is empty.
C10_TickNoOp ==
  (/\ op.name = "runGameTick"
   /\ ~pre.gameStarted \/ Len(pre.alivePlayers) = 0)
  => /\ state = pre
     /\ ~op.scheduled

\* A tick on a state that is not started and has players alive.
C10_Witness ==
  /\ op.name = "runGameTick"
  /\ ~pre.gameStarted
  /\ Len(pre.alivePlayers) >= 2
  /\ state = pre

----------------------------------------------------------------------------
(* Properties of runGameTick and resetSeason on a loaded state (SpecStore). *)

\* The scheduling property of the variant: lastTick in game.js,
\* nextEliminationTime in the pendingReset script.
SchedulingCleared(s) ==
  IF variant = "lastTick" THEN s.lastTick = JNull ELSE s.nextEliminationTime = JNull

\* The season of before is in the winners history with this username, added
\* at the end unless a record for the season was there already.
SeasonRecorded(before, after, username) ==
  IF SomeSeason(before.winners, before.season)
    THEN after.winners = before.winners
    ELSE after.winners = Append(before.winners,
                                [season |-> before.season, username |-> username])

\* C11: runGameTick on a started state with exactly one entry in alivePlayers
\* makes that entry the winner, clears gameStarted, records the season in
\* the winners history (where the script keeps one) unless it has a record
\* of the season, clears the scheduling property, and eliminates nobody.
C11_LoneSurvivorFinalized ==
  (/\ op.name = "runGameTick"
   /\ pre.gameStarted
   /\ Len(pre.alivePlayers) = 1)
  => /\ state.winner = JStr(pre.alivePlayers[1])
     /\ ~state.gameStarted
     /\ variant = "pendingReset" => SeasonRecorded(pre, state, pre.alivePlayers[1])
     /\ SchedulingCleared(state)
     /\ state.alivePlayers = pre.alivePlayers
     /\ state.eliminatedPlayers = pre.eliminatedPlayers

\* The set of entries of a list.
Entries(list) == {list[i] : i \in DOMAIN list}

\* C12: runGameTick on a started state with n >= 2 entries in alivePlayers
\* removes exactly one of them, whatever randomIndex is, and appends it to
\* the end of eliminatedPlayers: alivePlayers keeps its other n-1 entries in
\* their order, eliminatedPlayers has one more entry, and the union of the
\* two lists is unchanged.
C12_TickEliminatesOne ==
  (/\ op.name = "runGameTick"
   /\ pre.gameStarted
   /\ Len(pre.alivePlayers) >= 2)
  => /\ \E i \in DOMAIN pre.alivePlayers :
          /\ state.alivePlayers = SubSeqAt(pre.alivePlayers, DOMAIN pre.alivePlayers \ {i})
          /\ state.eliminatedPlayers = Append(pre.eliminatedPlayers, pre.alivePlayers[i])
     /\ Len(state.alivePlayers) = Len(pre.alivePlayers) - 1
     /\ Len(state.eliminatedPlayers) = Len(pre.eliminatedPlayers) + 1
     /\ Entries(state.alivePlayers) \cup Entries(state.eliminatedPlayers)
          = Entries(pre.alivePlayers) \cup Entries(pre.eliminatedPlayers)

\* A tick that removes the middle one of three alive players.
C12_Witness ==
  /\ op.name = "runGameTick"
  /\ pre.gameStarted
  /\ Len(pre.alivePlayers) = 3
  /\ op.randomIndex = 1
  /\ state.alivePlayers = <<pre.alivePlayers[1], pre.alivePlayers[3]>>
  /\ state.eliminatedPlayers = Append(pre.eliminatedPlayers, pre.alivePlayers[2])

\* What the win-check-first path of runGameTick does to a started state
\* whose alivePlayers is the single entry username: the state it returns and
\* whether it queued resetSeason.
WinCheckFirst(s, username) ==
  LET r == IF variant = "lastTick" THEN runGameTick([s EXCEPT !.alivePlayers = <<username>>], 0)
           ELSE runGameTickPR([s EXCEPT !.alivePlayers = <<username>>], 0, 0)
  IN  [gameStarted |-> r.state.gameStarted, winner |-> r.state.winner,
       winners |-> r.state.winners, lastTick |-> r.state.lastTick,
       nextEliminationTime |-> r.state.nextEliminationTime,
       pendingReset |-> r.state.pendingReset, scheduled |-> r.scheduled]

\* C13: one runGameTick on a started state with exactly two entries in
\* alivePlayers eliminates one of them and, in that same call, finalizes the
\* win of the other as the win-check-first path does: winner is the
\* remaining entry, gameStarted is cleared, the season is recorded in the
\* winners history (where the script keeps one) and the scheduling property
\* is cleared.
C13_EliminateAndWinInOneTick ==
  (/\ op.name = "runGameTick"
   /\ pre.gameStarted
   /\ Len(pre.alivePlayers) = 2)
  => /\ Len(state.alivePlayers) = 1
     /\ Len(state.eliminatedPlayers) = Len(pre.eliminatedPlayers) + 1
     /\ state.winner = JStr(state.alivePlayers[1])
     /\ ~state.gameStarted
     /\ variant = "pendingReset" => SeasonRecorded(pre, state, state.alivePlayers[1])
     /\ SchedulingCleared(state)
     /\ LET first == WinCheckFirst(pre, state.alivePlayers[1])
        IN  /\ state.gameStarted = first.gameStarted
            /\ state.winner = first.winner
            /\ state.winners = first.winners
            /\ state.lastTick = first.lastTick
            /\ state.nextEliminationTime = first.nextEliminationTime
            /\ state.pendingReset = first.pendingReset
            /\ op.scheduled = first.scheduled

\* What C14 says of every resetSeason but for the scheduling properties.
ResetsSeason(before, after) ==
  /\ after.season = before.season + 1
  /\ ~after.gameStarted
  /\ after.alivePlayers = <<>>
  /\ after.eliminatedPlayers = <<>>
  /\ after.winner = JNull
  /\ after.winners = before.winners

\* C14 as amended: resetSeason yields season + 1, gameStarted false, empty
\* alivePlayers and eliminatedPlayers and no winner, and leaves the winners
\* history as it was; the pendingReset script also clears nextEliminationTime
\* and pendingReset, and game.js leaves lastTick as it was.
C14_ResetKeepsLastTick ==
  op.name = "resetSeason"
  => /\ ResetsSeason(pre, state)
     /\ variant = "pendingReset" =>
          (state.nextEliminationTime = JNull /\ ~state.pendingReset)
     /\ variant = "lastTick" => state.lastTick = pre.lastTick

\* C14 as stated: resetSeason yields season + 1, gameStarted false, empty
\* alivePlayers and eliminatedPlayers, no winner and a cleared scheduling
\* property (nextEliminationTime, lastTick), and leaves the winners history
\* as it was.
C14_ResetClearsScheduling ==
  op.name = "resetSeason"
  => /\ ResetsSeason(pre, state)
     /\ SchedulingCleared(state)

\* Both scripts reset a state that had a winner and a scheduling time; the
\* pendingReset one had a winners history.
C14_Witness ==
  /\ op.name = "resetSeason"
  /\ pre.winner # JNull
  /\ ResetsSeason(pre, state)
  /\ \/ variant = "lastTick" /\ IsString(pre.lastTick) /\ state.lastTick = pre.lastTick
     \/ /\ variant = "pendingReset"
        /\ Len(pre.winners) > 0
        /\ IsString(pre.nextEliminationTime)
        /\ state.nextEliminationTime = JNull

\* C19: no rejoining within a season: in every step that keeps the season,
\* whatever the call, each player who is in eliminatedPlayers stays there
\* and is not in alivePlayers afterwards; so a player eliminated in season s
\* is in alivePlayers in no later state of season s.
C19_NoRejoinWithinSeason ==
  [][state'.season = state.season =>
       \A player \in Entries(state.eliminatedPlayers) :
         /\ Includes(state'.eliminatedPlayers, player)
         /\ ~Includes(state'.alivePlayers, player)]_vars

\* A player eliminated in the season tries to join it again, the game being
\* open to joins: one player is left alive.
C19_Witness ==
  /\ op.name = "addPlayer"
  /\ Len(pre.alivePlayers) = 1
  /\ Includes(pre.eliminatedPlayers, op.username)
  /\ ~op.result
  /\ state.season = pre.season
  /\ ~Includes(state.alivePlayers, op.username)
  /\ Includes(state.eliminatedPlayers, op.username)

----------------------------------------------------------------------------
(* main: one run of the script per event.  The script loads players.json,  *)
(* dispatches on the event, and saves; updateReadme, which only writes     *)
(* README.md, is left out.                                                 *)

\* loadGameState: the default state when there is no file or when reading
\* or parsing it throws, else the normalized document
loadGameState(v, st) ==
  IF ~st.exists \/ ~st.parses THEN DefaultStateOf(v) ELSE NormalizeOf(v, st.doc)

\* saveState: the file after JSON.stringify(normalizeState(state)).  The
\* state object, its normalized copy and the document written are each
\* bound as a value, the one element of a set.
saveState(v, s) ==
  CHOOSE file \in
    {[exists |-> TRUE, parses |-> TRUE, doc |-> AsRawOf(v, normalized)] :
       normalized \in {NormalizeOf(v, rawState) : rawState \in {AsRawOf(v, s)}}} : TRUE

\* EVENT_NAME: issues, schedule (or workflow_dispatch, handled the same), or
\* an event main handles in neither branch
EventKinds == {"issues", "schedule", "other"}

\* ISSUE_AUTHOR of an event: a username for issues
AuthorsOf(kind) == IF kind = "issues" THEN Usernames ELSE {""}

\* state.lastTick = new Date().toISOString() of game.js:418
trackTick(s, now) == [s EXCEPT !.lastTick = JStr(toISOString(now))]

\* the issues branch without its pendingReset test
resetBeforeJoinSkipped(s) == s

\* if (state.pendingReset) resetSeason(state), before addPlayer
resetBeforeJoin(s) == IF s.pendingReset THEN resetSeasonPR(s) ELSE s

\* the schedule branch without its pendingReset test
resetBeforeTickSkipped(s) == s

\* if (state.pendingReset) resetSeason(state), before runGameTick
resetBeforeTick(s) == IF s.pendingReset THEN resetSeasonPR(s) ELSE s

\* main without its winner test
winnerTestSkipped(s) == FALSE

\* state.winner && state.alivePlayers.length === 1
winnerDeclared(s) == Truthy(s.winner) /\ Len(s.alivePlayers) = 1

\* The script starts on an event and loads the state.  No run starts once
\* the stored season has passed MaxSeason.
Invoke(kind, author) ==
  \E loaded \in {loadGameState(variant, store)} :
    /\ pc = "idle"
    /\ timers = 0
    /\ loaded.season <= MaxSeason
    /\ state' = loaded
    /\ pre' = loaded
    /\ op' = Call("loadGameState", "", 0, FALSE, FALSE)
    /\ inv' = Invocation(kind, author, loaded)
    /\ pc' = "dispatch"
    /\ timers' = 0
    /\ UNCHANGED <<variant, raw, store>>

\* the issues branch going from addPlayer to the end of main
afterAddPlayerSaves == "save"

\* What the issues branch does after addPlayer: await closeIssue, the next
\* statement, before main reaches its saveState.
afterAddPlayer == "closeIssue"

\* The issues branch up to addPlayer.
DispatchJoin(now) ==
  /\ pc = "dispatch"
  /\ inv.kind = "issues"
  /\ \E before \in {IF variant = "lastTick" THEN state ELSE resetBeforeJoin(state)} :
       \E r \in {IF variant = "lastTick" THEN addPlayer(before, inv.author)
                 ELSE addPlayerPR(before, inv.author, now)} :
         /\ pre' = before
         /\ state' = r.state
         /\ op' = Call("addPlayer", inv.author, 0, r.result, FALSE)
         /\ inv' = [inv EXCEPT !.reset = (variant = "pendingReset" /\ state.pendingReset),
                               !.before = before, !.after = r.state]
  /\ pc' = afterAddPlayer
  /\ UNCHANGED <<variant, raw, timers, store>>

\* How a call of closeIssue can end: the issue closed, the early return
\* for a missing token, repository or issue number, a response that is not
\* ok, and an error thrown by fetch.
CloseIssueOutcomes == {"closed", "skipped", "notOk", "error"}

\* closeIssue that lets the error of fetch through
closeIssueRethrows(outcome) == outcome = "error"

\* Whether closeIssue throws: it returns early, logs the response that is
\* not ok, and catches what fetch throws.
closeIssueThrows(outcome) == FALSE

\* await closeIssue(ISSUE_NUMBER), ending in this outcome: it touches
\* neither the state nor the file
CloseIssueWith(outcome) ==
  /\ pc = "closeIssue"
  /\ inv' = [inv EXCEPT !.closed = outcome, !.closedAfter = Len(inv.writes),
                        !.failed = IF closeIssueThrows(outcome) THEN "closeIssue" ELSE @]
  /\ pc' = IF closeIssueThrows(outcome) THEN "idle" ELSE "save"
  /\ UNCHANGED <<variant, raw, state, pre, op, timers, store>>

\* closeIssue closes the issue.
CloseIssue == CloseIssueWith("closed")

\* The schedule branch up to runGameTick and the test that follows it.
DispatchTick(randomIndex, now) ==
  /\ pc = "dispatch"
  /\ inv.kind = "schedule"
  /\ \E before \in {IF variant = "lastTick" THEN trackTick(state, now)
                     ELSE resetBeforeTick(state)} :
       \E r \in {IF variant = "lastTick" THEN runGameTick(before, randomIndex)
                 ELSE runGameTickPR(before, randomIndex, now)} :
         /\ randomIndex \in RandomIndexes(before)
         /\ r.scheduled => timers < MaxTimers
         /\ pre' = before
         /\ state' = r.state
         /\ op' = Call("runGameTick", "", randomIndex, FALSE, r.scheduled)
         /\ timers' = IF r.scheduled THEN timers + 1 ELSE timers
         /\ inv' = [inv EXCEPT !.reset = (variant = "pendingReset" /\ state.pendingReset),
                               !.before = before, !.after = r.state]
         /\ pc' = IF winnerDeclared(r.state) THEN "winner" ELSE "save"
  /\ UNCHANGED <<variant, raw, store>>

\* An event of neither branch: main goes straight to saving.
DispatchOther ==
  /\ pc = "dispatch"
  /\ inv.kind = "other"
  /\ pc' = "save"
  /\ UNCHANGED <<variant, raw, state, pre, op, timers, store, inv>>

\* saveState inside the winner test: game.js goes on to resetSeason, the
\* pendingReset script returns.
SaveWinner ==
  /\ pc = "winner"
  /\ \E file \in {saveState(variant, state)} :
       /\ store' = file
       /\ inv' = [inv EXCEPT !.writes = Append(@, file.doc)]
  /\ pc' = IF variant = "lastTick" THEN "reset" ELSE "idle"
  /\ UNCHANGED <<variant, raw, state, pre, op, timers>>

\* resetSeason(state) of game.js:435, after the winner was saved
ResetAfterWin ==
  /\ pc = "reset"
  /\ pre' = state
  /\ state' = resetSeason(state)
  /\ op' = Call("resetSeason", "", 0, FALSE, FALSE)
  /\ pc' = "save"
  /\ UNCHANGED <<variant, raw, timers, store, inv>>

\* saveState at the end of main; the script exits.
FinalSave ==
  /\ pc = "save"
  /\ \E file \in {saveState(variant, state)} :
       /\ store' = file
       /\ inv' = [inv EXCEPT !.writes = Append(@, file.doc)]
  /\ pc' = "idle"
  /\ UNCHANGED <<variant, raw, state, pre, op, timers>>

\* main from its dispatch to its end.
RunToEnd ==
  \/ \E now \in NowValues : DispatchJoin(now)
  \/ CloseIssue
  \/ \E randomIndex \in RandomIndexes(state), now \in NowValues : DispatchTick(randomIndex, now)
  \/ DispatchOther
  \/ SaveWinner
  \/ ResetAfterWin
  \/ FinalSave

NextMain ==
  \/ \E kind \in EventKinds : \E author \in AuthorsOf(kind) : Invoke(kind, author)
  \/ RunToEnd

\* Runs of the script, one after the other, from no players.json.
InitMain ==
  /\ variant \in Variants
  /\ raw = NotObject
  /\ state = DefaultStateOf(variant)
  /\ pre = state
  /\ op = Call("createDefaultState", "", 0, FALSE, FALSE)
  /\ timers = 0
  /\ NoMain

SpecMain == InitMain /\ [][NextMain]_vars

\* A players.json put in the repository by hand: a started season with
\* three players alive.
StartedStore(v) ==
  saveState(v, [DefaultStateOf(v) EXCEPT
                  !.gameStarted = TRUE,
                  !.alivePlayers = <<"a", "b", "c">>,
                  !.lastEvent = "Game started with 3 players!",
                  !.nextEliminationTime =
                     IF v = "lastTick" THEN @
                     ELSE JStr(toISOString(EliminationDelayMin))])

\* Runs of the script from no players.json or from that one.
InitLive ==
  /\ variant \in Variants
  /\ raw = NotObject
  /\ state = DefaultStateOf(variant)
  /\ pre = state
  /\ op = Call("createDefaultState", "", 0, FALSE, FALSE)
  /\ timers = 0
  /\ store \in {NoStore, StartedStore(variant)}
  /\ pc = "idle"
  /\ inv = Invocation("none", "", DefaultStateOf(variant))

\* The workflow's cron schedule starts the script on a schedule event again
\* and again, whatever issues are opened in between, and node runs main to
\* its end.
Fairness ==
  /\ SF_vars(Invoke("schedule", ""))
  /\ WF_vars(RunToEnd)

SpecLive == InitLive /\ [][NextMain]_vars /\ Fairness

----------------------------------------------------------------------------
(* Properties of the runs of the script (SpecMain).                        *)

\* The run of main in progress, or the last one, was a tick whose
\* runGameTick set the winner.
TickDeclaredWinner ==
  /\ inv.kind = "schedule"
  /\ inv.before.winner = JNull
  /\ inv.after.winner # JNull

\* C15: a run of the script whose runGameTick sets the winner does not reset
\* the season: when it has ended, the document it wrote last, which is what
\* players.json holds, still has that winner and the season it was won in.
C15_WinnerOutlivesInvocation ==
  (pc = "idle" /\ TickDeclaredWinner)
  => /\ Len(inv.writes) >= 1
     /\ store.doc = inv.writes[Len(inv.writes)]
     /\ store.doc.winner = inv.after.winner
     /\ store.doc.season = JInt(inv.after.season)

\* main has passed the addPlayer or runGameTick of its run.
Dispatched == pc # "dispatch" /\ inv.kind \in {"issues", "schedule"}

\* C16: in the pendingReset script, a run that loads a state with
\* pendingReset true calls resetSeason before its addPlayer or runGameTick:
\* that call is handed the next season with empty lists and no winner, so
\* addPlayer accepts the author, one eliminated in the finished season
\* included, and runGameTick changes nothing.
C16_PendingResetRunsFirst ==
  (/\ variant = "pendingReset"
   /\ Dispatched
   /\ inv.loaded.pendingReset)
  => /\ inv.reset
     /\ inv.before.season = inv.loaded.season + 1
     /\ inv.before.alivePlayers = <<>>
     /\ inv.before.eliminatedPlayers = <<>>
     /\ inv.before.winner = JNull
     /\ ~inv.before.gameStarted
     /\ ~inv.before.pendingReset
     /\ inv.before.winners = inv.loaded.winners
     /\ inv.kind = "issues" =>
          (inv.after.alivePlayers = <<inv.author>> /\ inv.after.season = inv.before.season)
     /\ inv.kind = "schedule" => inv.after = inv.before

\* The player eliminated in the finished season joins the next one.
C16_Witness ==
  /\ variant = "pendingReset"
  /\ pc = "closeIssue"
  /\ inv.loaded.pendingReset
  /\ Includes(inv.loaded.eliminatedPlayers, inv.author)
  /\ op.result
  /\ state.alivePlayers = <<inv.author>>
  /\ state.season = inv.loaded.season + 1

\* The state a run of the script would load now.
Persisted == loadGameState(variant, store)

\* list b is list a with entries added at its end, or a itself.
Extends(a, b) == Len(a) <= Len(b) /\ SubSeq(b, 1, Len(a)) = a

\* The winners history of s has one record for each season before s.season,
\* in order, and one for s.season when its winner is declared.
OneRecordPerCompletedSeason(s) ==
  /\ \A i \in DOMAIN s.winners : s.winners[i].season = i
  /\ Len(s.winners) = IF s.pendingReset THEN s.season ELSE s.season - 1
  /\ s.pendingReset =>
       s.winner = JStr(s.winners[Len(s.winners)].username)

\* The addPlayer or runGameTick of the run added the record of the season
\* and its winner if it declared a winner, and left the history alone if not.
RecordsDeclaredWinner ==
  Dispatched =>
    IF TickDeclaredWinner
      THEN inv.after.winners =
             Append(inv.before.winners,
                    [season |-> inv.before.season, username |-> inv.after.winner.s])
      ELSE inv.after.winners = inv.before.winners

\* C17: over the runs of the pendingReset script from no players.json, the
\* winners history only grows at its end, in memory and in players.json; it
\* has at most one record per season; and each completed season adds exactly
\* one record, of that season and the winner declared for it.
C17_WinnersAppendOnly ==
  /\ [][variant = "pendingReset" =>
          /\ Extends(state.winners, state'.winners)
          /\ Extends(Persisted.winners, Persisted'.winners)]_vars
  /\ [](variant = "pendingReset" =>
          /\ OneRecordPerCompletedSeason(state)
          /\ OneRecordPerCompletedSeason(Persisted)
          /\ RecordsDeclaredWinner)

\* players.json after the second season was won: two records, in order.
C17_Witness ==
  /\ variant = "pendingReset"
  /\ pc = "idle"
  /\ TickDeclaredWinner
  /\ Len(Persisted.winners) = 2
  /\ Persisted.winners[1].season = 1
  /\ Persisted.winners[2] = [season |-> 2, username |-> Persisted.winner.s]

\* The document has no winner, or one player alive who is the winner.
WinnerIsLoneSurvivor(doc) ==
  doc.winner # JNull => doc.alivePlayers.items = <<doc.winner>>

----------------------------------------------------------------------------
(* Termination of a season (SpecLive).                                     *)

\* players.json holds a started season with at least two players alive.
SeasonUnderWay == Persisted.gameStarted /\ Len(Persisted.alivePlayers) >= 2

\* players.json holds one player alive, who is the winner.
WinnerPersisted ==
  /\ Len(Persisted.alivePlayers) = 1
  /\ Persisted.winner = JStr(Persisted.alivePlayers[1])

\* The last call was a runGameTick on a started state with two or more alive.
EliminatingTick ==
  /\ op.name = "runGameTick"
  /\ pre.gameStarted
  /\ Len(pre.alivePlayers) >= 2

\* An eliminating tick takes alivePlayers from n to n - 1 and declares the
\* winner exactly when n was 2; a join on a season under way is rejected.
OneEliminationPerTick ==
  /\ EliminatingTick =>
       /\ Len(state.alivePlayers) = Len(pre.alivePlayers) - 1
       /\ state.winner # JNull <=> Len(pre.alivePlayers) = 2
       /\ state.winner # JNull => state.winner = JStr(state.alivePlayers[1])
  /\ (op.name = "addPlayer" /\ pre.gameStarted /\ Len(pre.alivePlayers) > 1) =>
       (~op.result /\ state.alivePlayers = pre.alivePlayers
          /\ state.eliminatedPlayers = pre.eliminatedPlayers)

\* While a season is under way, a write to players.json keeps the season and
\* its players, and moves at most one of them from alive to eliminated.
OneEliminationPerWrite ==
  SeasonUnderWay =>
    /\ Persisted'.season = Persisted.season
    /\ Len(Persisted'.alivePlayers) + Len(Persisted'.eliminatedPlayers)
         = Len(Persisted.alivePlayers) + Len(Persisted.eliminatedPlayers)
    /\ Len(Persisted'.alivePlayers) \in
         {Len(Persisted.alivePlayers), Len(Persisted.alivePlayers) - 1}
    /\ Len(Persisted'.alivePlayers) < Len(Persisted.alivePlayers) =>
         (pc = "save" \/ pc = "winner") /\ EliminatingTick

\* C18: a season under way with n >= 2 players alive ends: the schedule runs
\* bring alivePlayers down to one entry and set winner to it.  Each
\* eliminating tick removes exactly one player and the one that leaves one
\* declares the winner, so it takes n - 1 of them; and the issues runs in
\* between change nothing, every join being rejected while the game is
\* started with more than one player alive.
C18_SeasonEndsAfterNMinusOneTicks ==
  /\ []OneEliminationPerTick
  /\ [][OneEliminationPerWrite]_vars
  /\ SeasonUnderWay ~> WinnerPersisted

\* The second eliminating tick of a season that had three players alive
\* has declared the winner, with issues runs rejected in between.
C18_Witness ==
  /\ EliminatingTick
  /\ Len(pre.alivePlayers) = 2
  /\ Len(pre.eliminatedPlayers) = 1
  /\ pc = "idle"
  /\ inv.kind = "schedule"
  /\ \/ WinnerPersisted
     \/ variant = "lastTick" /\ inv.writes[1].winner = inv.after.winner

----------------------------------------------------------------------------
(* The elimination timer of the pendingReset script (SpecLive).            *)

\* The next elimination time of the document is armed exactly when its
\* season is under way, and a season under way has two players or more.
ArmedWhileStarted(doc) ==
  /\ (doc.nextEliminationTime # JNull) <=> (doc.gameStarted = JBool(TRUE))
  /\ doc.nextEliminationTime \in
       {JNull} \cup {JStr(toISOString(now + EliminationDelayMin)) : now \in NowValues}
  /\ doc.gameStarted = JBool(TRUE) => Len(doc.alivePlayers.items) >= 2

\* The run is a tick that was handed a season under way.
TickOfStartedSeason ==
  /\ inv.kind = "schedule"
  /\ Dispatched
  /\ inv.before.gameStarted
  /\ Len(inv.before.alivePlayers) >= 1

\* C26: in the pendingReset script, every document written by the join and
\* tick runs has its next elimination time armed exactly when gameStarted is
\* true, and gameStarted true only with two players or more alive; a tick of
\* a season under way leaves the time armed when two or more players remain,
\* and null, with the winner set and gameStarted false, when one remains.
C26_TimerArmedIffStarted ==
  variant = "pendingReset"
  => /\ store.exists => ArmedWhileStarted(store.doc)
     /\ \A i \in DOMAIN inv.writes : ArmedWhileStarted(inv.writes[i])
     /\ TickOfStartedSeason
        => IF Len(inv.after.alivePlayers) >= 2
           THEN /\ inv.after.gameStarted
                /\ inv.after.winner = JNull
                /\ inv.after.nextEliminationTime \in
                     {JStr(toISOString(now + EliminationDelayMin)) : now \in NowValues}
           ELSE /\ ~inv.after.gameStarted
                /\ inv.after.winner = JStr(inv.after.alivePlayers[1])
                /\ inv.after.nextEliminationTime = JNull

\* A tick of a season of three has been written: two players remain and
\* the time is armed.
C26_Witness ==
  /\ variant = "pendingReset"
  /\ pc = "idle"
  /\ inv.kind = "schedule"
  /\ Len(inv.before.alivePlayers) = 3
  /\ Len(inv.after.alivePlayers) = 2
  /\ Len(inv.writes) = 1
  /\ store.doc.nextEliminationTime # JNull
  /\ store.doc.gameStarted = JBool(TRUE)

\* A tick that declared the winner has been written with the time cleared.
C26_WitnessCleared ==
  /\ variant = "pendingReset"
  /\ pc = "idle"
  /\ inv.kind = "schedule"
  /\ inv.before.nextEliminationTime # JNull
  /\ Len(inv.after.alivePlayers) = 1
  /\ store.doc.nextEliminationTime = JNull

----------------------------------------------------------------------------
(* Runs of the script in which a call fails (SpecFaults): players.json     *)
(* that is unreadable or holds a document of the wrong shape, closeIssue   *)
(* that does not close the issue, writeFileSync that throws in saveState   *)
(* or in updateReadme, and the callback of the timer of runGameTick.       *)

\* players.json that readFileSync or JSON.parse throws on
CorruptStore == [exists |-> TRUE, parses |-> FALSE, doc |-> NotObject]

\* Documents that parse and have fields of the wrong type: no object, an
\* empty object, every scalar of another type, lists that are no arrays
\* under a winner, and lists with entries that are no usernames.
MalformedDocs(v) ==
  {NotObject, EmptyObject,
   ScalarDoc(v, JStr("2"), JStr("true"), JNull, JInt(7), JInt(1)),
   ScalarDoc(v, JInt(0), JUndef, JUndef, JUndef, JUndef),
   ListDoc(v, NotArray, NotArray, JStr("a"), JBool(TRUE)),
   ListDoc(v, JArray(<<JInt(7), JStr("a")>>), JArray(<<JStr("")>>), JInt(7), JBool(FALSE))}

\* What the repository can hold when the script starts: no players.json,
\* one that does not parse, or one with a malformed document.
MalformedStores(v) ==
  {NoStore, CorruptStore} \cup
  {[exists |-> TRUE, parses |-> TRUE, doc |-> d] : d \in MalformedDocs(v)}

\* The calls of main whose error leaves main: saveState and updateReadme
\* rethrow what writeFileSync throws.
ThrowingCalls == {"saveState", "updateReadme"}

\* players.json after a writeFileSync that threw: as it was, or cut short.
AfterFailedWrite(st) == {st, CorruptStore}

\* saveState(state); updateReadme(state) with a writeFileSync that throws in
\* the call named: the error leaves main, and main().catch ends the process
\* with exit code 1 before any timer callback runs.
FailedSave(call) ==
  /\ call \in ThrowingCalls
  /\ \E file \in {saveState(variant, state)} :
       IF call = "saveState"
       THEN /\ store' \in AfterFailedWrite(store)
            /\ inv' = [inv EXCEPT !.failed = call]
       ELSE /\ store' = file
            /\ inv' = [inv EXCEPT !.writes = Append(@, file.doc), !.failed = call]
  /\ pc' = "idle"
  /\ timers' = 0
  /\ UNCHANGED <<variant, raw, state, pre, op>>

\* A failing write inside the winner test of main.
SaveWinnerFails(call) ==
  /\ pc = "winner"
  /\ FailedSave(call)

\* A failing write at the end of main.
FinalSaveFails(call) ==
  /\ pc = "save"
  /\ FailedSave(call)

\* closeIssue does not close the issue.
CloseIssueFails(outcome) ==
  /\ outcome \in CloseIssueOutcomes \ {"closed"}
  /\ CloseIssueWith(outcome)

\* A timer callback that could run in the middle of main
timerRunsAnyTime == TRUE

\* When the callback of setTimeout(..., 0) can run: the schedule branch of
\* main has no await, so it runs to its end before the event loop takes the
\* timer.
timerMayRun == pc = "idle"

\* The callback of the timer of runGameTick: resetSeason(state) on the
\* state object of the run, which nothing saves afterwards.
TimerFire ==
  /\ timers > 0
  /\ timerMayRun
  /\ pre' = state
  /\ state' = resetSeason(state)
  /\ op' = Call("resetSeason", "", 0, FALSE, TRUE)
  /\ timers' = timers - 1
  /\ UNCHANGED <<variant, raw, mainVars>>

NextFaults ==
  \/ NextMain
  \/ \E outcome \in CloseIssueOutcomes : CloseIssueFails(outcome)
  \/ \E call \in ThrowingCalls : SaveWinnerFails(call)
  \/ \E call \in ThrowingCalls : FinalSaveFails(call)
  \/ TimerFire

\* Runs of the script, one after the other, from any of those stores.
InitFaults ==
  /\ variant \in Variants
  /\ raw = NotObject
  /\ state = DefaultStateOf(variant)
  /\ pre = state
  /\ op = Call("createDefaultState", "", 0, FALSE, FALSE)
  /\ timers = 0
  /\ store \in MalformedStores(variant)
  /\ pc = "idle"
  /\ inv = Invocation("none", "", DefaultStateOf(variant))

SpecFaults == InitFaults /\ [][NextFaults]_vars

----------------------------------------------------------------------------
(* Properties of the runs with failing calls (SpecFaults).                 *)

\* The states addPlayer can leave for this author in a run that loaded s.
JoinedStates(s, username) ==
  IF variant = "lastTick"
  THEN {addPlayer(s, username).state}
  ELSE {addPlayerPR(resetBeforeJoin(s), username, now).state : now \in NowValues}

\* C21: closeIssue that fails (no token, a response that is not ok, an error
\* thrown by fetch) never ends the run and never changes what is written:
\* whatever its outcome, the state is still the one addPlayer left for the
\* loaded state and the author, and the run writes that state, once.
C21_CloseIssueFailureHarmless ==
  (inv.kind = "issues" /\ inv.closed # "")
  => /\ inv.failed # "closeIssue"
     /\ state = inv.after
     /\ inv.after \in JoinedStates(inv.loaded, inv.author)
     /\ (pc = "idle" /\ inv.failed # "saveState")
        => /\ inv.writes = <<saveState(variant, inv.after).doc>>
           /\ store = saveState(variant, inv.after)

\* A join whose closeIssue caught an error of fetch has ended and written
\* the state with the new player.
C21_Witness ==
  /\ pc = "idle"
  /\ inv.kind = "issues"
  /\ inv.closed = "error"
  /\ inv.failed = ""
  /\ Includes(inv.after.alivePlayers, inv.author)
  /\ ~Includes(inv.loaded.alivePlayers, inv.author)
  /\ Len(inv.writes) = 1

\* C22 as claimed: a join calls closeIssue only after saveState has written
\* the new state.
C22_SavePrecedesCloseIssue ==
  (inv.kind = "issues" /\ inv.closed # "") => inv.closedAfter >= 1

\* C22: a join calls closeIssue right after addPlayer and before it writes:
\* no write of the run precedes the call, the call is made in every join
\* that reaches the end of main, and the one write of the run follows it.
C22_CloseIssuePrecedesSave ==
  /\ (inv.kind = "issues" /\ inv.closed # "") => inv.closedAfter = 0
  /\ (inv.kind = "issues" /\ inv.closed = "") => inv.writes = <<>>
  /\ (inv.kind = "issues" /\ pc = "idle") =>
       (inv.closed # "" /\ Len(inv.writes) = 1 - (IF inv.failed = "saveState" THEN 1 ELSE 0))

\* A join has closed its issue and has not written yet.
C22_Witness ==
  /\ pc = "save"
  /\ inv.kind = "issues"
  /\ inv.closed = "closed"
  /\ inv.writes = <<>>
  /\ state # inv.loaded

\* The run of main in progress, or the last one, has ended.
RunEnded == pc = "idle" /\ inv.kind # "none"

\* A run that ended without an error has written players.json, which holds
\* the document it wrote last.
CompletedRunPersisted ==
  (RunEnded /\ inv.failed = "")
  => /\ Len(inv.writes) >= 1
     /\ store = [exists |-> TRUE, parses |-> TRUE, doc |-> inv.writes[Len(inv.writes)]]

\* C23 as claimed: only a failing write of players.json ends a run with an
\* error; every other run reaches the end of main and has written a state.
C23_OnlyStoreWriteAborts ==
  /\ inv.failed \in {"", "saveState"}
  /\ CompletedRunPersisted

\* C23: only a failing write of players.json or of README.md ends a run with
\* an error, which leaves main at the failing call with the process exiting
\* and no timer left; a malformed players.json, a rejected join and a
\* failing closeIssue do not, and every run that ends without an error has
\* written a state.
C23_OnlyFileWritesAbort ==
  /\ inv.failed \in {"", "saveState", "updateReadme"}
  /\ inv.failed # "" => (pc = "idle" /\ timers = 0)
  /\ (inv.kind = "issues" /\ inv.failed # "") => inv.closed # ""
  /\ CompletedRunPersisted

\* A rejected join whose closeIssue caught an error went on to saveState,
\* and the failing write there ended the run.
C23_Witness ==
  /\ RunEnded
  /\ inv.kind = "issues"
  /\ inv.after = inv.before
  /\ inv.closed = "error"
  /\ inv.failed = "saveState"
  /\ inv.writes = <<>>

\* The default state as the claim lists it.
IsDefaultState(s) ==
  /\ s.season = 1
  /\ ~s.gameStarted
  /\ s.alivePlayers = <<>>
  /\ s.eliminatedPlayers = <<>>
  /\ s.winner = JNull

\* Every field of the document that has the wrong type has its default in s.
MalformedFieldsDefaulted(doc, s) ==
  /\ ~(doc.season.t = "number" /\ doc.season.n > 0) => s.season = 1
  /\ doc.gameStarted.t # "boolean" => ~s.gameStarted
  /\ ~doc.alivePlayers.isArray => s.alivePlayers = <<>>
  /\ ~doc.eliminatedPlayers.isArray => s.eliminatedPlayers = <<>>
  /\ doc.winner.t # "string" => s.winner = JNull
  /\ doc.lastEvent.t # "string" => s.lastEvent = "Waiting for players to join..."
  /\ (variant = "lastTick" /\ doc.lastTick.t \notin {"string", "null"})
     => s.lastTick = JNull
  /\ (variant = "pendingReset" /\ doc.nextEliminationTime.t \notin {"string", "null"})
     => s.nextEliminationTime = JNull
  /\ (variant = "pendingReset" /\ doc.pendingReset.t # "boolean") => ~s.pendingReset
  /\ (variant = "pendingReset" /\ ~doc.winners.isArray) => s.winners = <<>>

\* Every field of the document that has the right type is kept in s.
WellFormedScalarsKept(doc, s) ==
  /\ (doc.season.t = "number" /\ doc.season.n > 0) => s.season = doc.season.n
  /\ doc.gameStarted.t = "boolean" => s.gameStarted = (doc.gameStarted.n = 1)
  /\ doc.lastEvent.t = "string" => s.lastEvent = doc.lastEvent.s

\* C24: loading never fails.  A run that has just loaded holds the default
\* state when players.json is absent, unreadable or unparseable; when it
\* parses, every field of the wrong type has its default and the well-typed
\* scalars are kept; and the run goes on: it ends with an error only in one
\* of its writes, and otherwise it has written a state.
C24_LoadNeverFails ==
  /\ pc = "dispatch"
     => /\ inv.failed = ""
        /\ state = inv.loaded
        /\ (~store.exists \/ ~store.parses) => IsDefaultState(inv.loaded)
        /\ (store.exists /\ store.parses)
           => /\ MalformedFieldsDefaulted(store.doc, inv.loaded)
              /\ WellFormedScalarsKept(store.doc, inv.loaded)
  /\ RunEnded => (inv.failed \in ThrowingCalls \/ Len(inv.writes) >= 1)

\* A run has loaded a document whose season, gameStarted and lastEvent have
\* the wrong type.
C24_Witness ==
  /\ pc = "dispatch"
  /\ store.exists /\ store.parses
  /\ store.doc.season.t = "string"
  /\ store.doc.gameStarted.t = "string"
  /\ store.doc.lastEvent.t = "null"
  /\ inv.loaded.season = 1

\* The run was a tick that left a winner with one player alive.
TickFinalizedWin ==
  /\ inv.kind = "schedule"
  /\ Truthy(inv.after.winner)
  /\ Len(inv.after.alivePlayers) = 1

\* The two writes of a run of game.js whose tick finalized a win: the state
\* with the winner, then the next season with nobody in it.
WinnerThenReset ==
  /\ Len(inv.writes) = 2
  /\ inv.writes[1].winner = inv.after.winner
  /\ inv.writes[1].season = JInt(inv.after.season)
  /\ inv.writes[1].alivePlayers = JArray(<<inv.after.winner>>)
  /\ inv.writes[2].winner = JNull
  /\ inv.writes[2].season = JInt(inv.after.season + 1)
  /\ inv.writes[2].alivePlayers = JArray(<<>>)
  /\ inv.writes[2].gameStarted = JBool(FALSE)

\* C25: a run that reaches the end of main has written players.json exactly
\* once, except exactly twice when its tick finalized a win and resetSeason
\* followed in the same run (game.js): first the state with the winner, then
\* the reset next season.  No run writes more than twice, and none writes
\* twice without such a tick.
C25_WritesOnceOrTwice ==
  /\ Len(inv.writes) <= 2
  /\ Len(inv.writes) = 2 => (variant = "lastTick" /\ TickFinalizedWin)
  /\ (RunEnded /\ inv.failed = "")
     => IF variant = "lastTick" /\ TickFinalizedWin
        THEN WinnerThenReset
        ELSE Len(inv.writes) = 1

\* A tick of game.js that eliminated the second-last player has ended with
\* its two writes.
C25_Witness ==
  /\ RunEnded
  /\ inv.failed = ""
  /\ variant = "lastTick"
  /\ Len(inv.before.alivePlayers) = 2
  /\ TickFinalizedWin
  /\ Len(inv.writes) = 2

\* The run is a tick of game.js whose runGameTick took the win-check-first
\* path: it was handed a season under way with one player alive.
WinCheckFirstRun ==
  /\ variant = "lastTick"
  /\ inv.kind = "schedule"
  /\ Dispatched
  /\ inv.before.gameStarted
  /\ Len(inv.before.alivePlayers) = 1

\* The last call was the resetSeason of the timer callback.
DeferredResetRan == op.name = "resetSeason" /\ op.scheduled

\* C27: in game.js a timer is pending only in a run whose runGameTick took
\* the win-check-first path; main resets the season itself and writes the
\* winner and then the next season; the callback runs only after main has
\* ended, so what it resets is the state object alone: players.json holds
\* the second write, one season after the loaded one, while the state
\* object is two seasons on.
C27_DeferredResetNeverStored ==
  /\ timers > 0 => (WinCheckFirstRun /\ inv.failed = "")
  /\ WinCheckFirstRun
     => /\ \A i \in DOMAIN inv.writes :
             inv.writes[i].season = JInt(inv.loaded.season + i - 1)
        /\ (RunEnded /\ inv.failed = "")
           => /\ Len(inv.writes) = 2
              /\ store.doc = inv.writes[2]
              /\ store.doc.season = JInt(inv.loaded.season + 1)
  /\ DeferredResetRan
     => /\ WinCheckFirstRun
        /\ RunEnded /\ inv.failed = ""
        /\ timers = 0
        /\ state.season = inv.loaded.season + 2
        /\ store.doc.season = JInt(inv.loaded.season + 1)

\* The callback has run after a tick that found one player alive:
\* players.json is one season on, the state object two.
C27_Witness ==
  /\ DeferredResetRan
  /\ pc = "idle"
  /\ inv.loaded.winner # JNull
  /\ Len(inv.writes) = 2
  /\ state.season = inv.loaded.season + 2
  /\ store.doc.season = JInt(inv.loaded.season + 1)

====
